---- MODULE Spec2Model ----
(***************************************************************************)
(* Model of emacs_remote: the client daemon (client/daemon.py) with its    *)
(* shared request queue, per-connection workers and cancellation events,   *)
(* and the framed channel (utils/stcp_socket.py) with its two-part         *)
(* header + payload framing over a byte stream.                            *)
(***************************************************************************)
EXTENDS Integers, Sequences, FiniteSets, TLC

\* ------------------------------------------------------------------ bounds
MaxClients == 2
MaxFields == 1
MaxMsgs == 2
MaxLines == 2
MaxLineLen == 2
MaxEcho == 3

\* ------------------------------------------------------- program constants
\* The two requests seeded by ClientDaemon.__init__, in seeding order.
ReqLs == 1
ReqGitStatus == 2

VARIABLES
    numClients,       \* self.num_clients
    requests,         \* self.requests       (Queue of pending requests)
    terminate_queue,  \* self.terminate_queue (Queue of terminate events)
    event,            \* terminate_event of each client_handler
    server,           \* self.server
    mainPc,           \* position of the thread that calls __enter__/__exit__
    wpc,              \* position of each client_handler thread
    cur,              \* local `request` of each client_handler
    conn,             \* connection of each client_handler, seen from the client
    claimed,          \* history: requests.get() results, in order
    sent,             \* history: socket.sendall(request) calls, in order
    completed,        \* history: handle_request returns, in order
    setDuring,        \* history: request in flight when the event was set
    outbox,           \* messages the sending end will still pass to sendall
    spc,              \* position of the sending end inside sendall
    stream,           \* bytes written to the connection, not yet arrived
    rbuf,             \* bytes arrived at the receiving socket, not yet read
    rpc,              \* position of the receiving end inside recvall
    rtype,            \* recvall: message_type
    rsize,            \* recvall: message_size
    rdata,            \* recvall: the bytearray `data`
    received,         \* history: messages returned by recvall, in order
    sentMsgs,         \* history: messages passed to sendall, in order
    hdrTaken,         \* history: bytes taken by the header recv of this call
    consumed,         \* history: bytes read from the socket so far
    blocking,         \* receiving socket: still in blocking mode
    closed,           \* the sending end has closed the connection
    rres,             \* outcome of the latest recvall call
    procOut,          \* process.stdout of the launcher: its lines, as bytes
    nread,            \* check_started: lines read from process.stdout
    cs,               \* check_started: position and result
    lpc,              \* position of the thread inside listen()
    lport,            \* listen: port
    portFile,         \* content of the daemon.port file, 0 when it is absent
    ctl,              \* chunks the controller will still send to listen()
    ldata,            \* listen: data
    echoed            \* history: chunks listen() sent back, in order

dvars == <<numClients, requests, terminate_queue, event, server, mainPc,
           wpc, cur, conn, claimed, sent, completed, setDuring>>

wvars == <<outbox, spc, stream, rbuf, rpc, rtype, rsize, rdata, received,
           sentMsgs, hdrTaken, consumed, blocking, closed, rres>>

bvars == <<procOut, nread, cs, lpc, lport, portFile, ctl, ldata, echoed>>

vars == <<dvars, wvars, bvars>>

Workers == 1..MaxClients

Started == 1..numClients

\* Kinds of frame the peer can put on a connection: a Response, another
\* registered message, or a frame whose type tag is not registered.
Kinds == {"Response", "Request", "Unknown"}

Hdr(k) == [part |-> "hdr", kind |-> k]

Body(k) == [part |-> "body", kind |-> k]

NewConn == [open |-> TRUE, inbox |-> <<>>, owed |-> 0]

NoConn == [open |-> FALSE, inbox |-> <<>>, owed |-> 0]

InFlight(i) == wpc[i] \in {"send", "recv", "recv_body"}

\* ------------------------------------------------------------------- Init
\* ClientDaemon.__init__: the queue is seeded with the two shell requests,
\* no server, empty terminate queue.
DaemonInit ==
    /\ requests = <<ReqLs, ReqGitStatus>>
    /\ terminate_queue = <<>>
    /\ event = [i \in Workers |-> "none"]
    /\ server = "none"
    /\ mainPc = "idle"
    /\ wpc = [i \in Workers |-> "idle"]
    /\ cur = [i \in Workers |-> 0]
    /\ conn = [i \in Workers |-> NoConn]
    /\ claimed = <<>>
    /\ sent = <<>>
    /\ completed = <<>>
    /\ setDuring = [i \in Workers |-> 0]

\* ------------------------------------------------------------ main thread
\* __enter__ -> reset_ssh_connection -> SecureTCP.start: one connection and
\* one client_handler thread per client.
Enter ==
    /\ mainPc = "idle"
    /\ server = "none"
    /\ server' = "running"
    /\ wpc' = [i \in Workers |-> IF i \in Started THEN "start" ELSE wpc[i]]
    /\ conn' = [i \in Workers |-> IF i \in Started THEN NewConn ELSE conn[i]]
    /\ UNCHANGED <<numClients, requests, terminate_queue, event, mainPc,
                   cur, claimed, sent, completed, setDuring>>
    /\ UNCHANGED <<wvars, bvars>>

\* __exit__ is called.
ExitBegin ==
    /\ mainPc = "idle"
    /\ mainPc' = "exit_loop"
    /\ UNCHANGED <<numClients, requests, terminate_queue, event, server,
                   wpc, cur, conn, claimed, sent, completed,
                   setDuring>>
    /\ UNCHANGED <<wvars, bvars>>

\* One iteration of `while not self.terminate_queue.empty()`.
ExitLoop ==
    /\ mainPc = "exit_loop"
    /\ IF terminate_queue # <<>>
         THEN LET i == Head(terminate_queue) IN
              /\ terminate_queue' = Tail(terminate_queue)
              /\ event' = [event EXCEPT ![i] = "set"]
              /\ setDuring' = [setDuring EXCEPT ![i] =
                                 IF InFlight(i) THEN cur[i] ELSE @]
              /\ UNCHANGED mainPc
         ELSE /\ mainPc' = "exit_stop"
              /\ UNCHANGED <<terminate_queue, event, setDuring>>
    /\ UNCHANGED <<numClients, requests, server, wpc, cur, conn,
                   claimed, sent, completed>>
    /\ UNCHANGED <<wvars, bvars>>

\* SecureTCP.stop: closes the connections and the launcher subprocess.
ServerStop(c) == [i \in Workers |-> [c[i] EXCEPT !.open = FALSE]]

\* `if self.server: self.server.stop()`, then __exit__ returns.
ExitStop ==
    /\ mainPc = "exit_stop"
    /\ IF server # "none"
         THEN /\ conn' = ServerStop(conn)
              /\ server' = "stopped"
         ELSE UNCHANGED <<conn, server>>
    /\ mainPc' = "idle"
    /\ UNCHANGED <<numClients, requests, terminate_queue, event, wpc, cur,
                   claimed, sent, completed, setDuring>>
    /\ UNCHANGED <<wvars, bvars>>

\* --------------------------------------------------------- client_handler
\* self.requests.get(): Queue is FIFO, the item returned is removed.
QueueGetLifo(q) == [item |-> q[Len(q)], rest |-> SubSeq(q, 1, Len(q) - 1)]

\* A get that returns the head of the queue and leaves it there.
QueueGetPeek(q) == [item |-> Head(q), rest |-> q]

QueueGet(q) == [item |-> Head(q), rest |-> Tail(q)]

\* An exception other than EmptyQueue leaves the while loop of
\* client_handler: the thread of worker i ends, the others are untouched.
RaiseAll(i, pcs) ==
    [j \in Workers |-> IF pcs[j] \in {"idle", "stopped"} THEN pcs[j]
                       ELSE "failed"]

\* A handler that catches the exception and sends its request again.
RaiseRetry(i, pcs) == [pcs EXCEPT ![i] = "send"]

Raise(i, pcs) == [pcs EXCEPT ![i] = "failed"]

Entry(i, r) == [w |-> i, r |-> r, late |-> event[i] = "set"]

\* terminate_event = Event(); self.terminate_queue.put(terminate_event)
Register(i) ==
    /\ wpc[i] = "start"
    /\ event' = [event EXCEPT ![i] = "clear"]
    /\ terminate_queue' = Append(terminate_queue, i)
    /\ wpc' = [wpc EXCEPT ![i] = "loop"]
    /\ UNCHANGED <<numClients, requests, server, mainPc, cur, conn,
                   claimed, sent, completed, setDuring>>
    /\ UNCHANGED <<wvars, bvars>>

\* `while not terminate_event.is_set()` evaluated without regard to the event.
LoopCheckNoCancel(i) ==
    /\ wpc[i] = "loop"
    /\ wpc' = [wpc EXCEPT ![i] = "get"]
    /\ UNCHANGED <<numClients, requests, terminate_queue, event, server,
                   mainPc, cur, conn, claimed, sent, completed,
                   setDuring>>
    /\ UNCHANGED <<wvars, bvars>>

\* `while not terminate_event.is_set()`
LoopCheck(i) ==
    /\ wpc[i] = "loop"
    /\ wpc' = [wpc EXCEPT ![i] = IF event[i] = "set" THEN "stopped" ELSE "get"]
    /\ UNCHANGED <<numClients, requests, terminate_queue, event, server,
                   mainPc, cur, conn, claimed, sent, completed,
                   setDuring>>
    /\ UNCHANGED <<wvars, bvars>>

\* request = self.requests.get(timeout=1), an item is available.
GetClaim(i) ==
    /\ wpc[i] = "get"
    /\ requests # <<>>
    /\ LET g == QueueGet(requests) IN
       /\ requests' = g.rest
       /\ cur' = [cur EXCEPT ![i] = g.item]
       /\ claimed' = Append(claimed, Entry(i, g.item))
    /\ wpc' = [wpc EXCEPT ![i] = "send"]
    /\ UNCHANGED <<numClients, terminate_queue, event, server, mainPc,
                   conn, sent, completed, setDuring>>
    /\ UNCHANGED <<wvars, bvars>>

\* self.requests.get(timeout=1) raises EmptyQueue after the wait: `pass`.
GetTimeout(i) ==
    /\ wpc[i] = "get"
    /\ requests = <<>>
    /\ wpc' = [wpc EXCEPT ![i] = "loop"]
    /\ UNCHANGED <<numClients, requests, terminate_queue, event, server,
                   mainPc, cur, conn, claimed, sent, completed,
                   setDuring>>
    /\ UNCHANGED <<wvars, bvars>>

\* ---------------------------------------------------------- handle_request
\* A handle_request that returns after sendall, without waiting for the
\* reply.
SendNoWait(i) ==
    /\ wpc[i] = "send"
    /\ \/ /\ conn[i].open
          /\ conn' = [conn EXCEPT ![i].owed = @ + 1]
          /\ sent' = Append(sent, Entry(i, cur[i]))
          /\ wpc' = [wpc EXCEPT ![i] = "loop"]
       \/ /\ ~conn[i].open
          /\ wpc' = Raise(i, wpc)
          /\ UNCHANGED <<conn, sent>>
    /\ UNCHANGED <<numClients, requests, terminate_queue, event, server,
                   mainPc, cur, claimed, completed, setDuring>>
    /\ UNCHANGED <<wvars, bvars>>

\* socket.sendall(request): header and payload are written to the stream;
\* on a connection that is already closed the write raises.
Send(i) ==
    /\ wpc[i] = "send"
    /\ \/ /\ conn[i].open
          /\ conn' = [conn EXCEPT ![i].owed = @ + 1]
          /\ sent' = Append(sent, Entry(i, cur[i]))
          /\ wpc' = [wpc EXCEPT ![i] = "recv"]
       \/ /\ ~conn[i].open
          /\ wpc' = Raise(i, wpc)
          /\ UNCHANGED <<conn, sent>>
    /\ UNCHANGED <<numClients, requests, terminate_queue, event, server,
                   mainPc, cur, claimed, completed, setDuring>>
    /\ UNCHANGED <<wvars, bvars>>

\* handle_request returning into a loop that polls again without looking
\* at the event.
AfterRecvNoCheck(i, k) ==
    IF k = "Response"
      THEN /\ wpc' = [wpc EXCEPT ![i] = "get"]
           /\ completed' = Append(completed,
                 [w |-> i, r |-> cur[i],
                  afterFail |-> \E j \in Workers : wpc[j] = "failed"])
           /\ cur' = [cur EXCEPT ![i] = 0]
      ELSE /\ wpc' = [wpc EXCEPT ![i] = "failed"]
           /\ UNCHANGED <<completed, cur>>

\* handle_request returning into a handler that serves one request only.
AfterRecvOnce(i, k) ==
    IF k = "Response"
      THEN /\ wpc' = [wpc EXCEPT ![i] = "stopped"]
           /\ completed' = Append(completed,
                 [w |-> i, r |-> cur[i],
                  afterFail |-> \E j \in Workers : wpc[j] = "failed"])
           /\ cur' = [cur EXCEPT ![i] = 0]
      ELSE /\ wpc' = [wpc EXCEPT ![i] = "failed"]
           /\ UNCHANGED <<completed, cur>>

\* handle_request after recvall returned a message of kind k:
\* assert isinstance(data, Response); print(data); back to the loop.
AfterRecv(i, k) ==
    IF k = "Response"
      THEN /\ wpc' = [wpc EXCEPT ![i] = "loop"]
           /\ completed' = Append(completed,
                 [w |-> i, r |-> cur[i],
                  afterFail |-> \E j \in Workers : wpc[j] = "failed"])
           /\ cur' = [cur EXCEPT ![i] = 0]
      ELSE /\ wpc' = Raise(i, wpc)
           /\ UNCHANGED <<completed, cur>>

\* data = socket.recvall(): recv(1024) and unpackb for the header, then
\* `while len(data) < message_size: recv(1024)`, decompress, unpackb and
\* get_message, which raises for a type tag that is not registered.
\* recv blocks while nothing has arrived on an open stream; on a closed
\* stream it returns b"" and the unpackb of the header raises.  When only
\* the header has arrived the call is left in its payload loop.
Recv(i) ==
    /\ wpc[i] = "recv"
    /\ \/ /\ Len(conn[i].inbox) >= 2
          /\ conn' = [conn EXCEPT ![i].inbox = Tail(Tail(@))]
          /\ IF conn[i].inbox[2].kind = "Unknown"
               THEN /\ wpc' = Raise(i, wpc)
                    /\ UNCHANGED <<completed, cur>>
               ELSE AfterRecv(i, conn[i].inbox[2].kind)
       \/ /\ Len(conn[i].inbox) = 1
          /\ conn' = [conn EXCEPT ![i].inbox = Tail(@)]
          /\ wpc' = [wpc EXCEPT ![i] = "recv_body"]
          /\ UNCHANGED <<completed, cur>>
       \/ /\ conn[i].inbox = <<>>
          /\ ~conn[i].open
          /\ wpc' = Raise(i, wpc)
          /\ UNCHANGED <<conn, completed, cur>>
    /\ UNCHANGED <<numClients, requests, terminate_queue, event, server,
                   mainPc, claimed, sent, setDuring>>
    /\ UNCHANGED <<wvars, bvars>>

\* The payload loop of recvall after a header that arrived alone: it ends
\* when the payload arrives; on a closed stream recv returns b"" and the
\* loop goes round without progress.
RecvBody(i) ==
    /\ wpc[i] = "recv_body"
    /\ \/ /\ conn[i].inbox # <<>>
          /\ conn' = [conn EXCEPT ![i].inbox = Tail(@)]
          /\ IF Head(conn[i].inbox).kind = "Unknown"
               THEN /\ wpc' = Raise(i, wpc)
                    /\ UNCHANGED <<completed, cur>>
               ELSE AfterRecv(i, Head(conn[i].inbox).kind)
       \/ /\ conn[i].inbox = <<>>
          /\ ~conn[i].open
          /\ UNCHANGED <<conn, wpc, completed, cur>>
    /\ UNCHANGED <<numClients, requests, terminate_queue, event, server,
                   mainPc, claimed, sent, setDuring>>
    /\ UNCHANGED <<wvars, bvars>>

\* ------------------------------------------------------------ remote peer
\* The peer answers a request it has received with a frame of kind k.
PeerReply(i, k) ==
    /\ conn[i].open
    /\ conn[i].owed > 0
    /\ conn' = [conn EXCEPT ![i].inbox = @ \o <<Hdr(k), Body(k)>>,
                            ![i].owed = @ - 1]
    /\ UNCHANGED <<numClients, requests, terminate_queue, event, server,
                   mainPc, wpc, cur, claimed, sent, completed,
                   setDuring>>
    /\ UNCHANGED <<wvars, bvars>>

\* The peer writes the header of its reply, and the payload later.
PeerHeader(i) ==
    /\ conn[i].open
    /\ conn[i].owed > 0
    /\ conn' = [conn EXCEPT ![i].inbox = Append(@, Hdr("Response")),
                            ![i].owed = @ - 1]
    /\ UNCHANGED <<numClients, requests, terminate_queue, event, server,
                   mainPc, wpc, cur, claimed, sent, completed,
                   setDuring>>
    /\ UNCHANGED <<wvars, bvars>>

PeerBody(i) ==
    /\ conn[i].open
    /\ wpc[i] = "recv_body"
    /\ conn[i].inbox = <<>>
    /\ conn' = [conn EXCEPT ![i].inbox = Append(@, Body("Response"))]
    /\ UNCHANGED <<numClients, requests, terminate_queue, event, server,
                   mainPc, wpc, cur, claimed, sent, completed,
                   setDuring>>
    /\ UNCHANGED <<wvars, bvars>>

\* The peer (or the tunnel) closes connection i.  The worker sees a close
\* at its next sendall or at a recv that finds nothing left to read, so the
\* close is taken at those points.
PeerClose(i) ==
    /\ conn[i].open
    /\ \/ wpc[i] = "send"
       \/ wpc[i] \in {"recv", "recv_body"} /\ conn[i].inbox = <<>>
    /\ conn' = [conn EXCEPT ![i].open = FALSE]
    /\ UNCHANGED <<numClients, requests, terminate_queue, event, server,
                   mainPc, wpc, cur, claimed, sent, completed,
                   setDuring>>
    /\ UNCHANGED <<wvars, bvars>>

\* ---------------------------------------------------------- specification
WorkerStep(i) ==
    \/ Register(i)
    \/ LoopCheck(i)
    \/ GetClaim(i)
    \/ GetTimeout(i)
    \/ Send(i)
    \/ Recv(i)
    \/ RecvBody(i)

PeerStep(i) ==
    \/ \E k \in Kinds : PeerReply(i, k)
    \/ PeerHeader(i)
    \/ PeerBody(i)

\* The channel of the wire specification is idle in the daemon's.
WireIdle ==
    /\ outbox = <<>>
    /\ spc = "idle"
    /\ stream = <<>>
    /\ rbuf = <<>>
    /\ rpc = "idle"
    /\ rtype = 0
    /\ rsize = 0
    /\ rdata = <<>>
    /\ received = <<>>
    /\ sentMsgs = <<>>
    /\ hdrTaken = 0
    /\ consumed = 0
    /\ blocking = TRUE
    /\ closed = FALSE
    /\ rres = "none"

\* No launcher output is being read and listen() has not been called.
BootIdle ==
    /\ procOut = <<>>
    /\ nread = 0
    /\ cs = "none"
    /\ lpc = "idle"
    /\ lport = 0
    /\ portFile = 0
    /\ ctl = <<>>
    /\ ldata = 0
    /\ echoed = <<>>

Init ==
    /\ numClients \in 1..MaxClients
    /\ DaemonInit
    /\ WireIdle
    /\ BootIdle

Next ==
    \/ Enter
    \/ ExitBegin
    \/ ExitLoop
    \/ ExitStop
    \/ \E i \in Workers : Register(i)
    \/ \E i \in Workers : LoopCheck(i)
    \/ \E i \in Workers : GetClaim(i)
    \/ \E i \in Workers : GetTimeout(i)
    \/ \E i \in Workers : Send(i)
    \/ \E i \in Workers : Recv(i)
    \/ \E i \in Workers : RecvBody(i)
    \/ \E i \in Workers, k \in Kinds : PeerReply(i, k)
    \/ \E i \in Workers : PeerHeader(i)
    \/ \E i \in Workers : PeerBody(i)
    \/ \E i \in Workers : PeerClose(i)

Spec == Init /\ [][Next]_vars

\* Worker threads are scheduled fairly and the peer goes on answering.
Fairness ==
    /\ \A i \in Workers : WF_vars(WorkerStep(i))
    /\ WF_vars(\E i \in Workers : PeerStep(i))

FairSpec == Init /\ [][Next]_vars /\ Fairness

\* ============================================================ the channel
\* SecureTCPSocket.sendall and recvall over one direction of a connection.
\* A message is its type tag and the tuple of its fields (astuple).

\* Type tags of the registered messages (get_message_type).
TagShellRequest == 1
TagResponse == 2

Tags == {TagShellRequest, TagResponse}

FieldVals == {1, 2}

RECURSIVE SeqsUpTo(_, _)
SeqsUpTo(S, n) ==
    IF n = 0 THEN {<<>>}
    ELSE LET shorter == SeqsUpTo(S, n - 1) IN
         shorter \cup {Append(q, x) : q \in shorter, x \in S}

Messages == [tag : Tags, body : SeqsUpTo(FieldVals, MaxFields)]

Min(a, b) == IF a < b THEN a ELSE b

Take(q, n) == SubSeq(q, 1, Min(n, Len(q)))

Drop(q, n) == SubSeq(q, Min(n, Len(q)) + 1, Len(q))

RECURSIVE SumSeq(_)
SumSeq(q) == IF q = <<>> THEN 0 ELSE Head(q) + SumSeq(Tail(q))

\* msgpack.packb of a tuple of small non-negative integers: the fixarray
\* marker 0x90 + n, then one positive-fixint byte per element.
FixArray == 144

Packb(t) == <<FixArray + Len(t)>> \o t

\* msgpack.unpackb: the data must hold exactly one object.  ok is false
\* where unpackb raises (incomplete input, extra data) or where the object
\* is not a flat array of small integers.
Unpackb(d) ==
    IF /\ Len(d) >= 1
       /\ d[1] \in FixArray..(FixArray + 15)
       /\ Len(d) = 1 + (d[1] - FixArray)
       /\ \A k \in 2..Len(d) : d[k] \in 0..127
      THEN [ok |-> TRUE, val |-> Drop(d, 1)]
      ELSE [ok |-> FALSE, val |-> <<>>]

\* zlib.compress: the stream header byte, the data, the end-of-stream
\* marker and a checksum of the data.
ZHeader == 120
ZEnd == 0
ZModulus == 128

Checksum(p) == (1 + SumSeq(p)) % ZModulus

Compress(p) == <<ZHeader>> \o p \o <<ZEnd, Checksum(p)>>

\* zlib.decompress: raises on a stream that does not start with the
\* header, is truncated or fails its checksum; bytes after the end of the
\* stream are ignored.
Decompress(d) ==
    LET ends == {e \in 2..Len(d) : d[e] = ZEnd}
        e == CHOOSE x \in ends : \A y \in ends : x <= y
    IN  IF /\ Len(d) >= 3
           /\ d[1] = ZHeader
           /\ ends # {}
           /\ e < Len(d)
           /\ d[e + 1] = Checksum(SubSeq(d, 2, e - 1))
          THEN [ok |-> TRUE, val |-> SubSeq(d, 2, e - 1)]
          ELSE [ok |-> FALSE, val |-> <<>>]

\* The payload and the header sendall writes for message m.
Payload(m) == Compress(Packb(m.body))

Header(m) == Packb(<<m.tag, Len(Payload(m))>>)

Frame(m) == Header(m) \o Payload(m)

RECURSIVE FramesLen(_)
FramesLen(ms) ==
    IF ms = <<>> THEN 0 ELSE Len(Frame(Head(ms))) + FramesLen(Tail(ms))

\* Size argument of every socket.recv call of recvall.
RecvSize == 1024

WireInit ==
    /\ outbox \in SeqsUpTo(Messages, MaxMsgs) \ {<<>>}
    /\ spc = "idle"
    /\ stream = <<>>
    /\ rbuf = <<>>
    /\ rpc = "idle"
    /\ rtype = 0
    /\ rsize = 0
    /\ rdata = <<>>
    /\ received = <<>>
    /\ sentMsgs = <<>>
    /\ hdrTaken = 0
    /\ consumed = 0
    /\ blocking = TRUE
    /\ closed = FALSE
    /\ rres = "none"

\* sendall up to self.socket.sendall(size_message).
SendallHeader ==
    /\ spc = "idle"
    /\ outbox # <<>>
    /\ ~closed
    /\ stream' = stream \o Header(Head(outbox))
    /\ spc' = "payload"
    /\ sentMsgs' = Append(sentMsgs, Head(outbox))
    /\ UNCHANGED <<outbox, rbuf, rpc, rtype, rsize, rdata, received,
                   hdrTaken, consumed, blocking, closed, rres>>
    /\ UNCHANGED <<dvars, bvars>>

\* self.socket.sendall(compressed), sendall returns.
SendallPayload ==
    /\ spc = "payload"
    /\ ~closed
    /\ stream' = stream \o Payload(Head(outbox))
    /\ outbox' = Tail(outbox)
    /\ spc' = "idle"
    /\ UNCHANGED <<rbuf, rpc, rtype, rsize, rdata, received, sentMsgs,
                   hdrTaken, consumed, blocking, closed, rres>>
    /\ UNCHANGED <<dvars, bvars>>

\* The network delivers the next n bytes of the stream to the receiver.
Deliver(n) ==
    /\ n \in 1..Len(stream)
    /\ rbuf' = rbuf \o Take(stream, n)
    /\ stream' = Drop(stream, n)
    /\ UNCHANGED <<outbox, spc, rpc, rtype, rsize, rdata, received, sentMsgs,
                   hdrTaken, consumed, blocking, closed, rres>>
    /\ UNCHANGED <<dvars, bvars>>

\* The sending end closes the connection, between or inside frames.
SenderClose ==
    /\ ~closed
    /\ closed' = TRUE
    /\ UNCHANGED <<outbox, spc, stream, rbuf, rpc, rtype, rsize, rdata,
                   received, sentMsgs, hdrTaken, consumed, blocking, rres>>
    /\ UNCHANGED <<dvars, bvars>>

\* Everything written has been read and the stream is closed: socket.recv
\* returns b"" from now on.
AtEof == closed /\ stream = <<>> /\ rbuf = <<>>

\* socket.recv returns at once, select.select reports the socket ready.
Readable == rbuf # <<>> \/ AtEof

\* data = self.socket.recv(1024);
\* message_type, message_size = msgpack.unpackb(data).
RecvHeader ==
    LET chunk == Take(rbuf, RecvSize)
        u == Unpackb(chunk)
    IN  /\ rbuf' = Drop(rbuf, RecvSize)
        /\ hdrTaken' = Len(chunk)
        /\ consumed' = consumed + Len(chunk)
        /\ IF u.ok /\ Len(u.val) = 2
             THEN /\ rtype' = u.val[1]
                  /\ rsize' = u.val[2]
                  /\ rdata' = <<>>
                  /\ rpc' = "payload"
                  /\ rres' = "none"
             ELSE /\ rpc' = "error"
                  /\ rres' = "UnpackError"
                  /\ UNCHANGED <<rtype, rsize, rdata>>

\* recvall without timeout, up to the header.  recv returns what has
\* arrived, at most 1024 bytes, and waits while nothing has.
RecvallHeader ==
    /\ rpc = "idle"
    /\ Readable
    /\ RecvHeader
    /\ UNCHANGED <<outbox, spc, stream, received, sentMsgs, blocking, closed>>
    /\ UNCHANGED <<dvars, bvars>>

\* recvall(timeout) when select reports the socket ready within the timeout:
\* self.socket.setblocking(0), select, then the header as above.
RecvallTimedHeader ==
    /\ rpc = "idle"
    /\ Readable
    /\ blocking' = FALSE
    /\ RecvHeader
    /\ UNCHANGED <<outbox, spc, stream, received, sentMsgs, closed>>
    /\ UNCHANGED <<dvars, bvars>>

\* recvall(timeout) when nothing arrives within the timeout:
\* `if not ready[0]: return None`.
RecvallTimedOut ==
    /\ rpc = "idle"
    /\ ~Readable
    /\ blocking' = FALSE
    /\ rres' = "None"
    /\ UNCHANGED <<outbox, spc, stream, rbuf, rpc, rtype, rsize, rdata,
                   received, sentMsgs, hdrTaken, consumed, closed>>
    /\ UNCHANGED <<dvars, bvars>>

\* socket.recv on a socket left non-blocking by setblocking(0), with
\* nothing to read: BlockingIOError, at the header recv of a call without
\* timeout or inside the payload loop.
RecvallWouldBlock ==
    /\ ~blocking
    /\ ~Readable
    /\ \/ rpc = "idle"
       \/ rpc = "payload" /\ Len(rdata) < rsize
    /\ rpc' = "error"
    /\ rres' = "BlockingIOError"
    /\ UNCHANGED <<outbox, spc, stream, rbuf, rtype, rsize, rdata, received,
                   sentMsgs, hdrTaken, consumed, blocking, closed>>
    /\ UNCHANGED <<dvars, bvars>>

\* One round of `while len(data) < message_size:
\*                   data.extend(self.socket.recv(1024))`.
\* At end of stream recv returns b"" and the round changes nothing.
RecvallLoop ==
    /\ rpc = "payload"
    /\ Len(rdata) < rsize
    /\ Readable
    /\ rdata' = rdata \o Take(rbuf, RecvSize)
    /\ consumed' = consumed + Len(Take(rbuf, RecvSize))
    /\ rbuf' = Drop(rbuf, RecvSize)
    /\ UNCHANGED <<outbox, spc, stream, rpc, rtype, rsize, received,
                   sentMsgs, hdrTaken, blocking, closed, rres>>
    /\ UNCHANGED <<dvars, bvars>>

\* The loop has ended: zlib.decompress, msgpack.unpackb and
\* get_message(message_type, data), which raises for an unregistered tag.
RecvallReturn ==
    /\ rpc = "payload"
    /\ Len(rdata) >= rsize
    /\ LET z == Decompress(rdata)
           u == Unpackb(z.val)
       IN  IF z.ok /\ u.ok /\ rtype \in Tags
             THEN /\ received' = Append(received,
                                        [tag |-> rtype, body |-> u.val])
                  /\ rpc' = "idle"
                  /\ rres' = "message"
             ELSE /\ rpc' = "error"
                  /\ rres' = "DecodeError"
                  /\ UNCHANGED received
    /\ hdrTaken' = 0
    /\ UNCHANGED <<outbox, spc, stream, rbuf, rtype, rsize, rdata, sentMsgs,
                   consumed, blocking, closed>>
    /\ UNCHANGED <<dvars, bvars>>

\* The daemon of the channel specification is the constructed one, at rest.
WireSpecInit ==
    /\ numClients = 1
    /\ DaemonInit
    /\ WireInit
    /\ BootIdle

WireNext ==
    \/ SendallHeader
    \/ SendallPayload
    \/ \E n \in 1..Len(stream) : Deliver(n)
    \/ SenderClose
    \/ RecvallHeader
    \/ RecvallTimedHeader
    \/ RecvallTimedOut
    \/ RecvallWouldBlock
    \/ RecvallLoop
    \/ RecvallReturn

WireSpec == WireSpecInit /\ [][WireNext]_vars

\* The receiving thread keeps running and the network keeps delivering.
WireFairness ==
    /\ WF_vars(RecvallHeader \/ RecvallLoop \/ RecvallReturn
                  \/ RecvallWouldBlock)
    /\ WF_vars(\E n \in 1..Len(stream) : Deliver(n))

WireFairSpec == WireSpec /\ WireFairness

\* ----------------------------------------------------------------- startup
\* Bytes a line of the launcher's output is made of: a space, the letter R
\* and a byte that is not valid UTF-8.
LineBytes == {32, 82, 255}

Lines == SeqsUpTo(LineBytes, MaxLineLen)

\* SERVER_STARTUP_MSG, a text without surrounding whitespace.
Sentinel == <<"R">>

CharOf(b) == IF b = 32 THEN " " ELSE "R"

\* line.decode("utf-8"): raises UnicodeDecodeError on an invalid byte.
Decode(l) ==
    IF \E k \in DOMAIN l : l[k] = 255
      THEN [ok |-> FALSE, val |-> <<>>]
      ELSE [ok |-> TRUE, val |-> [k \in DOMAIN l |-> CharOf(l[k])]]

RECURSIVE LStrip(_)
LStrip(t) == IF t # <<>> /\ Head(t) = " " THEN LStrip(Tail(t)) ELSE t

RECURSIVE RStrip(_)
RStrip(t) ==
    IF t # <<>> /\ t[Len(t)] = " " THEN RStrip(SubSeq(t, 1, Len(t) - 1))
    ELSE t

\* str.strip(): leading and trailing whitespace removed.
Strip(t) == RStrip(LStrip(t))

\* __enter__ -> reset_ssh_connection: self.server = SecureTCP(...), then
\* self.server.start launches the subprocess and calls check_started on it.
StartBegin ==
    /\ mainPc = "idle"
    /\ server = "none"
    /\ cs = "none"
    /\ mainPc' = "starting"
    /\ server' = "created"
    /\ cs' = "scanning"
    /\ UNCHANGED <<numClients, requests, terminate_queue, event, wpc, cur,
                   conn, claimed, sent, completed, setDuring>>
    /\ UNCHANGED <<procOut, nread, lpc, lport, portFile, ctl, ldata, echoed>>
    /\ UNCHANGED wvars

\* One round of `for line in process.stdout`: decode, strip, compare,
\* `return True` on a match.
CheckStartedLine ==
    /\ cs = "scanning"
    /\ nread < Len(procOut)
    /\ nread' = nread + 1
    /\ LET d == Decode(procOut[nread + 1]) IN
       cs' = IF ~d.ok THEN "raised"
             ELSE IF Strip(d.val) = Sentinel THEN "true"
             ELSE "scanning"
    /\ UNCHANGED <<procOut, lpc, lport, portFile, ctl, ldata, echoed>>
    /\ UNCHANGED <<dvars, wvars>>

\* A check_started that reports success when the output has ended.
CheckStartedEofTrue ==
    /\ cs = "scanning"
    /\ nread = Len(procOut)
    /\ cs' = "true"
    /\ UNCHANGED <<procOut, nread, lpc, lport, portFile, ctl, ldata, echoed>>
    /\ UNCHANGED <<dvars, wvars>>

\* process.stdout has ended: the for loop ends, `return False`.
CheckStartedEof ==
    /\ cs = "scanning"
    /\ nread = Len(procOut)
    /\ cs' = "false"
    /\ UNCHANGED <<procOut, nread, lpc, lport, portFile, ctl, ldata, echoed>>
    /\ UNCHANGED <<dvars, wvars>>

\* SecureTCP.start after check_started returned True: the connections are
\* opened, one client_handler thread per client is started, __enter__
\* returns.
StartOk ==
    /\ mainPc = "starting"
    /\ cs = "true"
    /\ server' = "running"
    /\ wpc' = [i \in Workers |-> IF i \in Started THEN "start" ELSE wpc[i]]
    /\ conn' = [i \in Workers |-> IF i \in Started THEN NewConn ELSE conn[i]]
    /\ mainPc' = "idle"
    /\ UNCHANGED <<numClients, requests, terminate_queue, event, cur,
                   claimed, sent, completed, setDuring>>
    /\ UNCHANGED <<wvars, bvars>>

\* SecureTCP.start after check_started returned False or raised: the
\* exception leaves start, reset_ssh_connection and __enter__.
StartFail ==
    /\ mainPc = "starting"
    /\ cs \in {"false", "raised"}
    /\ mainPc' = "raised"
    /\ UNCHANGED <<numClients, requests, terminate_queue, event, server, wpc,
                   cur, conn, claimed, sent, completed, setDuring>>
    /\ UNCHANGED <<wvars, bvars>>

StartupInit ==
    /\ numClients \in 1..MaxClients
    /\ DaemonInit
    /\ WireIdle
    /\ procOut \in SeqsUpTo(Lines, MaxLines)
    /\ nread = 0
    /\ cs = "none"
    /\ lpc = "idle"
    /\ lport = 0
    /\ portFile = 0
    /\ ctl = <<>>
    /\ ldata = 0
    /\ echoed = <<>>

StartupNext ==
    \/ StartBegin
    \/ CheckStartedLine
    \/ CheckStartedEof
    \/ StartOk
    \/ StartFail

StartupSpec == StartupInit /\ [][StartupNext]_vars

\* ---------------------------------------------------------------- listen
\* Ports bind(("localhost", 0)) can be given, and chunks conn.recv(1024)
\* can return.
Ports == {1, 2}

EchoVals == {1, 2}

\* listen() leaves without passing a finally clause when it raised.
ListenExitNoFinally(how) ==
    /\ lpc' = how
    /\ portFile' = IF how = "raised" THEN portFile ELSE 0

\* The try statement is left: `finally: daemon_port.unlink()`, then the
\* socket is closed and listen() returns or the exception goes on.
ListenExit(how) ==
    /\ lpc' = how
    /\ portFile' = 0

\* s.bind(("localhost", 0)); port = s.getsockname()[1]
ListenBind ==
    /\ lpc = "idle"
    /\ \E p \in Ports : lport' = p
    /\ lpc' = "bound"
    /\ UNCHANGED <<procOut, nread, cs, portFile, ctl, ldata, echoed>>
    /\ UNCHANGED <<dvars, wvars>>

\* daemon_port.write_text(str(port)); the try statement is entered.
ListenWrite ==
    /\ lpc = "bound"
    /\ portFile' = lport
    /\ lpc' = "listen"
    /\ UNCHANGED <<procOut, nread, cs, lport, ctl, ldata, echoed>>
    /\ UNCHANGED <<dvars, wvars>>

\* s.listen()
ListenListen ==
    /\ lpc = "listen"
    /\ lpc' = "accept"
    /\ UNCHANGED <<procOut, nread, cs, lport, portFile, ctl, ldata, echoed>>
    /\ UNCHANGED <<dvars, wvars>>

\* conn, addr = s.accept()
ListenAccept ==
    /\ lpc = "accept"
    /\ lpc' = "recv"
    /\ UNCHANGED <<procOut, nread, cs, lport, portFile, ctl, ldata, echoed>>
    /\ UNCHANGED <<dvars, wvars>>

\* data = conn.recv(1024); `if not data: break` when the controller has
\* closed the connection.
ListenRecv ==
    /\ lpc = "recv"
    /\ IF ctl # <<>>
         THEN /\ ldata' = Head(ctl)
              /\ ctl' = Tail(ctl)
              /\ lpc' = "sendall"
              /\ UNCHANGED portFile
         ELSE /\ ListenExit("returned")
              /\ UNCHANGED <<ldata, ctl>>
    /\ UNCHANGED <<procOut, nread, cs, lport, echoed>>
    /\ UNCHANGED <<dvars, wvars>>

\* conn.sendall(data)
ListenSendall ==
    /\ lpc = "sendall"
    /\ echoed' = Append(echoed, ldata)
    /\ lpc' = "recv"
    /\ UNCHANGED <<procOut, nread, cs, lport, portFile, ctl, ldata>>
    /\ UNCHANGED <<dvars, wvars>>

\* s.listen(), s.accept(), conn.recv or conn.sendall raises.
ListenRaise ==
    /\ lpc \in {"listen", "accept", "recv", "sendall"}
    /\ ListenExit("raised")
    /\ UNCHANGED <<procOut, nread, cs, lport, ctl, ldata, echoed>>
    /\ UNCHANGED <<dvars, wvars>>

\* listen() is called again after it has returned or raised.
ListenAgain ==
    /\ lpc \in {"returned", "raised"}
    /\ lpc' = "idle"
    /\ UNCHANGED <<procOut, nread, cs, lport, portFile, ctl, ldata, echoed>>
    /\ UNCHANGED <<dvars, wvars>>

ListenInit ==
    /\ numClients = 1
    /\ DaemonInit
    /\ WireIdle
    /\ procOut = <<>>
    /\ nread = 0
    /\ cs = "none"
    /\ lpc = "idle"
    /\ lport = 0
    /\ portFile = 0
    /\ ctl \in SeqsUpTo(EchoVals, MaxEcho)
    /\ ldata = 0
    /\ echoed = <<>>

ListenNext ==
    \/ ListenBind
    \/ ListenWrite
    \/ ListenListen
    \/ ListenAccept
    \/ ListenRecv
    \/ ListenSendall
    \/ ListenRaise
    \/ ListenAgain

ListenSpec == ListenInit /\ [][ListenNext]_vars

\* -------------------------------------------------------- re-establishment
\* Threads of the session a second reset_ssh_connection starts.
NewSession == (numClients + 1)..(2 * numClients)

\* reset_ssh_connection while a server is running:
\* `if self.server: self.server.stop()`, then a new SecureTCP is created
\* and started with one connection and one client_handler per client.
\* self.terminate_queue is not touched.
ResetSshConnection ==
    /\ mainPc = "idle"
    /\ server = "running"
    /\ NewSession \subseteq Workers
    /\ \A j \in NewSession : wpc[j] = "idle"
    /\ conn' = [i \in Workers |->
                  IF i \in NewSession THEN NewConn ELSE ServerStop(conn)[i]]
    /\ wpc' = [i \in Workers |-> IF i \in NewSession THEN "start" ELSE wpc[i]]
    /\ UNCHANGED <<numClients, requests, terminate_queue, event, server,
                   mainPc, cur, claimed, sent, completed, setDuring>>
    /\ UNCHANGED <<wvars, bvars>>

ResetNext ==
    \/ Next
    \/ ResetSshConnection

ResetSpec == Init /\ [][ResetNext]_vars

\* ------------------------------------------------------------------ claims
LateCount(log, i) ==
    Cardinality({k \in DOMAIN log : log[k].w = i /\ log[k].late})

SentCount(r) == Cardinality({k \in DOMAIN sent : sent[k].r = r})

Terminated(i) == wpc[i] \in {"idle", "stopped", "failed"}

\* C1: every request is claimed at most once, and claims follow insertion
\* order (the requests are numbered in the order __init__ put them): of two
\* claims, the earlier one is of the request enqueued earlier.
C1_ClaimedOnceInOrder ==
    \A a, b \in DOMAIN claimed : a < b => claimed[a].r < claimed[b].r

C1_Witness ==
    /\ Len(claimed) = 2
    /\ claimed[1].w # claimed[2].w

\* C2 as stated: no request is claimed or sent by a worker whose event is
\* already set.
C2_NothingAfterSet ==
    /\ \A k \in DOMAIN claimed : ~claimed[k].late
    /\ \A k \in DOMAIN sent : ~sent[k].late

\* C2 amended: a worker whose event is set claims at most one more request
\* and sends at most one more request (those of the loop iteration that had
\* begun when the event was set), and a worker that has left its loop on
\* the event has no request in hand.
C2_AtMostOneAfterSet ==
    \A i \in Workers :
        /\ LateCount(claimed, i) <= 1
        /\ LateCount(sent, i) <= 1
        /\ wpc[i] = "stopped" => event[i] = "set" /\ cur[i] = 0

C2_Witness ==
    \E k \in DOMAIN claimed :
        /\ claimed[k].late
        /\ \E s \in DOMAIN sent : sent[s].late /\ sent[s].w = claimed[k].w
        /\ wpc[claimed[k].w] = "stopped"

\* C3: a worker whose event was set while it was processing a request claims
\* no later request; with a single worker whose event was set while it was
\* processing the first request, the second request stays in the queue.
C3_SecondRequestStaysQueued ==
    /\ \A i \in Workers : setDuring[i] # 0 =>
          \A k \in DOMAIN claimed :
              claimed[k].w = i => claimed[k].r <= setDuring[i]
    /\ (numClients = 1 /\ setDuring[1] = ReqLs) => requests = <<ReqGitStatus>>

C3_Witness ==
    /\ numClients = 1
    /\ setDuring[1] = ReqLs
    /\ wpc[1] = "stopped"
    /\ requests = <<ReqGitStatus>>

\* A worker is disturbed when its event is set, it has failed, or its
\* connection is closed.
Disturbed(i) ==
    \/ event[i] = "set"
    \/ wpc[i] = "failed"
    \/ (wpc[i] # "idle" /\ ~conn[i].open)

AllSentOnce ==
    /\ requests = <<>>
    /\ SentCount(ReqLs) = 1
    /\ SentCount(ReqGitStatus) = 1
    /\ Len(sent) = 2
    /\ numClients = 1 => sent[1].r = ReqLs /\ sent[2].r = ReqGitStatus

C5_ExitTerminatesWorkers ==
    (server = "stopped") ~> (\A i \in Workers : Terminated(i))

\* C6: when __exit__ has drained the terminate queue, the event of every
\* worker that was started exists and is set.
C6_AllEventsSetAfterDrain ==
    mainPc = "exit_stop" =>
        \A i \in Workers : wpc[i] # "idle" => event[i] = "set"

\* C7: a step in which worker i fails changes nothing of any other worker
\* (position, event, connection, request in hand), of the request queue or
\* of the main thread and its server.
C7_FailureIsolated ==
    [][\A i \in Workers :
          (wpc[i] # "failed" /\ wpc'[i] = "failed") =>
              /\ \A j \in Workers \ {i} :
                    /\ wpc'[j] = wpc[j]
                    /\ event'[j] = event[j]
                    /\ conn'[j] = conn[j]
                    /\ cur'[j] = cur[j]
              /\ requests' = requests
              /\ server' = server
              /\ mainPc' = mainPc]_vars

C7_Witness ==
    \E k \in DOMAIN completed :
        /\ completed[k].afterFail
        /\ event[completed[k].w] # "set"
        /\ wpc[completed[k].w] \notin {"failed", "stopped"}

\* The frame the current recvall call is reading, and the number of
\* messages of the run.
CurFrame == Len(received) + 1

TotalMsgs == Len(sentMsgs) + Len(outbox) - (IF spc = "payload" THEN 1 ELSE 0)

\* C8: a recvall call takes from the stream the bytes of one frame and no
\* others: its header recv takes no more than the header, the call never
\* reads past the end of its frame, and between calls the bytes read are
\* those of the frames returned.
C8_ConsumesExactlyOneFrame ==
    /\ rpc = "idle" => consumed = FramesLen(Take(sentMsgs, Len(received)))
    /\ (rpc # "idle" /\ CurFrame <= Len(sentMsgs)) =>
          /\ hdrTaken <= Len(Header(sentMsgs[CurFrame]))
          /\ consumed <= FramesLen(Take(sentMsgs, CurFrame))

\* C9: when one message is sent, recvall does not fail and returns that
\* message, however the stream splits the bytes of its frame across reads.
C9_ReconstructsUnderAnySplit ==
    TotalMsgs = 1 =>
        /\ rpc # "error"
        /\ received # <<>> => received = sentMsgs

\* C10: every recvall call returns, and the k-th call returns the k-th
\* message passed to sendall.
C10_RoundTrip ==
    /\ rpc # "error"
    /\ Len(received) <= Len(sentMsgs)
    /\ \A k \in DOMAIN received : received[k] = sentMsgs[k]

\* C11: a timeout given to recvall bounds only the wait for the first
\* bytes.  A call that returns None has raised nothing, and once the
\* header of a call has been read, the wait for its payload never fails
\* for lack of data.
C11_TimeoutOnlyFirstWait ==
    /\ rres = "None" => rpc = "idle"
    /\ hdrTaken > 0 => rres # "BlockingIOError"

\* C12: when the stream ends with the payload short of its declared
\* length, recvall ends with an error instead of reading on forever.
C12_ClosedMidFrameFails ==
    (rpc = "payload" /\ Len(rdata) < rsize /\ AtEof) ~> (rpc = "error")

\* Entries of a history that belong to worker i.
ByWorker(log, i) == Cardinality({k \in DOMAIN log : log[k].w = i})

\* Transitions of a client_handler thread: waiting is "loop" and "get",
\* sending is "send", awaiting the response is "recv" and "recv_body".
CycleEdges ==
    {<<"idle", "start">>, <<"start", "loop">>, <<"loop", "get">>,
     <<"loop", "stopped">>, <<"get", "loop">>, <<"get", "send">>,
     <<"send", "recv">>, <<"send", "failed">>, <<"recv", "recv_body">>,
     <<"recv", "loop">>, <<"recv", "failed">>, <<"recv_body", "loop">>,
     <<"recv_body", "failed">>}

\* C16: a worker moves waiting -> sending -> awaiting -> waiting; it stops
\* only from waiting; it has at most one request claimed or sent beyond
\* those completed; and a request is claimed or sent only when every
\* earlier one of that worker has been completed.
C16_WorkerCycle ==
    /\ [](\A i \in Workers :
            /\ ByWorker(claimed, i) - ByWorker(completed, i) \in {0, 1}
            /\ ByWorker(sent, i) - ByWorker(completed, i) \in {0, 1}
            /\ ByWorker(sent, i) <= ByWorker(claimed, i))
    /\ [][\A i \in Workers :
            /\ wpc'[i] # wpc[i] => <<wpc[i], wpc'[i]>> \in CycleEdges
            /\ ByWorker(claimed', i) > ByWorker(claimed, i) =>
                   ByWorker(claimed, i) = ByWorker(completed, i)
            /\ ByWorker(sent', i) > ByWorker(sent, i) =>
                   ByWorker(sent, i) = ByWorker(completed, i)]_vars

C16_Witness ==
    \E i \in Workers :
        /\ ByWorker(completed, i) = 1
        /\ ByWorker(sent, i) = 2
        /\ wpc[i] \in {"recv", "recv_body"}

InQueue(r) == \E k \in DOMAIN requests : requests[k] = r

\* C17: the request a failed worker held is not in the queue and has been
\* sent at most once; no request is ever sent twice; a failed worker stays
\* failed, keeps the request it held and claims nothing more.
C17_NoRequeueNoRetry ==
    /\ [](/\ \A i \in Workers : wpc[i] = "failed" =>
                /\ cur[i] # 0
                /\ ~InQueue(cur[i])
                /\ SentCount(cur[i]) <= 1
          /\ \A r \in {ReqLs, ReqGitStatus} : SentCount(r) <= 1)
    /\ [][\A i \in Workers : wpc[i] = "failed" =>
            /\ wpc'[i] = "failed"
            /\ cur'[i] = cur[i]
            /\ ByWorker(claimed', i) = ByWorker(claimed, i)
            /\ ByWorker(sent', i) = ByWorker(sent, i)]_vars

C17_Witness ==
    \E i, j \in Workers :
        /\ wpc[i] = "failed"
        /\ SentCount(cur[i]) = 1
        /\ requests = <<>>
        /\ wpc[j] = "get"

Occurrences(q, r) == Cardinality({k \in DOMAIN q : q[k] = r})

Holders(r) == {i \in Workers : cur[i] = r}

\* C20: each seeded request is in exactly one place: in the queue, held by
\* exactly one worker (in flight, or dropped when that worker has failed),
\* or completed; and a request in the queue has not been sent.
C20_RequestConservation ==
    \A r \in {ReqLs, ReqGitStatus} :
        /\ Occurrences(requests, r) + Cardinality(Holders(r))
             + Cardinality({k \in DOMAIN completed : completed[k].r = r}) = 1
        /\ \A i \in Holders(r) :
               wpc[i] \in {"send", "recv", "recv_body", "failed"}
        /\ InQueue(r) => SentCount(r) = 0
        /\ SentCount(r) <= 1

C20_Witness ==
    /\ \E i \in Workers : wpc[i] = "failed" /\ cur[i] = ReqLs
    /\ \E i \in Workers : InFlight(i) /\ cur[i] = ReqGitStatus

\* A step of the thread inside __exit__: it moves the thread, or it is an
\* iteration of the drain loop, which takes an event off the queue.
ExitStep ==
    \/ mainPc' # mainPc
    \/ Len(terminate_queue') < Len(terminate_queue)

\* C19: __exit__ with no server ever started, and __exit__ after an earlier
\* __exit__ has stopped the server, change nothing: the terminate queue,
\* the events, the server and the connections stay as they were; and an
\* event that is set is never cleared.
C19_ExitIdempotent ==
    [][/\ (ExitStep /\ server \in {"none", "stopped"}) =>
            /\ terminate_queue' = terminate_queue
            /\ event' = event
            /\ server' = server
            /\ conn' = conn
       /\ \A i \in Workers : event[i] = "set" => event'[i] = "set"]_vars

\* The second session has been started.
Reestablished == \E j \in NewSession \cap Workers : wpc[j] # "idle"

\* C14: when the threads of a new session exist, the event of every thread
\* of the previous session that registered one is set, and from then on no
\* thread of the previous session claims a request.
C14_OldSessionStoppedFirst ==
    /\ [](Reestablished => \A i \in Started : event[i] # "clear")
    /\ [][Reestablished =>
            \A i \in Started : ByWorker(claimed', i) = ByWorker(claimed, i)]_vars

\* Line l is the sentinel byte with nothing but spaces around it.
IsSentinelLine(l) ==
    \E k \in DOMAIN l : l[k] = 82 /\ \A j \in DOMAIN l \ {k} : l[j] = 32

Matching(out) == {k \in DOMAIN out : IsSentinelLine(out[k])}

\* The first line of out that is the sentinel between spaces, 0 if none.
FirstMatch(out) ==
    IF Matching(out) = {} THEN 0
    ELSE CHOOSE k \in Matching(out) : \A j \in Matching(out) : k <= j

\* C18: check_started returns True exactly when some line of the output
\* is the sentinel after trimming, having read up to the first such line
\* and no further; it returns False when the output ends without one,
\* having read all of it; it does not end in any other way.
C18_CheckStarted ==
    /\ cs = "true" => FirstMatch(procOut) # 0 /\ nread = FirstMatch(procOut)
    /\ cs = "false" => FirstMatch(procOut) = 0 /\ nread = Len(procOut)
    /\ cs = "scanning" /\ FirstMatch(procOut) # 0 => nread < FirstMatch(procOut)
    /\ cs # "raised"

\* C13: when the launcher's output ends without the sentinel, no
\* client_handler is started, the server does not run and __enter__ does
\* not return normally; and whenever the server runs, the sentinel was
\* seen and all numClients client_handlers were started.
C13_NoSentinelNoSession ==
    /\ (server # "none" /\ Matching(procOut) = {}) =>
          /\ \A i \in Workers : wpc[i] = "idle"
          /\ server # "running"
          /\ mainPc \in {"starting", "raised"}
    /\ cs = "false" => mainPc \in {"starting", "raised"}
    /\ server = "running" =>
          /\ cs = "true"
          /\ \A i \in Started : wpc[i] # "idle"

C13_Witness ==
    /\ Matching(procOut) = {}
    /\ Len(procOut) = MaxLines
    /\ cs = "false"
    /\ mainPc = "raised"

\* C15: the port file exists exactly while listen() is inside its try
\* statement, where it holds the bound port; when listen() has returned or
\* raised, and before it has bound, the file does not exist.
C15_PortFileWhileListening ==
    /\ lpc \in {"listen", "accept", "recv", "sendall"} => portFile = lport
    /\ lpc \in {"listen", "accept", "recv", "sendall"} => portFile # 0
    /\ lpc \in {"idle", "bound", "returned", "raised"} => portFile = 0

C15_Witness ==
    /\ lpc = "raised"
    /\ portFile = 0
    /\ echoed # <<>>
    /\ ctl # <<>>
====
